---- MODULE Spec2Model ----
(***************************************************************************)
(* Order-book component (src/unnamed/part_002, <script setup>): the raw    *)
(* book kept in rawOrderbook, the REST snapshot loaded by initOrderbook,   *)
(* the incremental depth messages handled by updateOrderbook /             *)
(* applyDepthUpdate, and the display pipeline groupByPrecision.            *)
(*                                                                         *)
(* Decimal strings are records [v, z]: v is the numeric value the string   *)
(* denotes (prices in tenths, amounts in whole units) and z the number of  *)
(* redundant trailing zeros of the text ("1.5" is [v |-> 15, z |-> 0],     *)
(* "1.50" is [v |-> 15, z |-> 1]).  Two strings are === only when both     *)
(* fields agree, while parseFloat sees v alone.                            *)
(***************************************************************************)
EXTENDS Integers, Sequences, FiniteSets, TLC

VARIABLES phase, symbol, rawOrderbook, bookOf, isLoading, hasError,
          currentPrecision, fetches, subs, lastEvt,
          maxDepth, currentDepth, mockBids, mockAsks,
          account, storeOrders, tradingLoading, lastError, calls

\* the depth prop and the depth limit of the order-book component
depthVars == <<maxDepth, currentDepth>>
\* the order-book rows of the trading dashboard
dashVars == <<mockBids, mockAsks>>

\* the trading store: its account, orders, isLoading and lastError refs, and
\* the HTTP calls it has made
storeVars == <<account, storeOrders, tradingLoading, lastError, calls>>

vars == <<phase, symbol, rawOrderbook, bookOf, isLoading, hasError,
          currentPrecision, fetches, subs, lastEvt, depthVars, dashVars,
          storeVars>>

(* ------------------------------ bounds -------------------------------- *)
\* largest update id carried by a snapshot or a depth message
MaxId == 3
\* number of initOrderbook calls in one run
MaxFetches == 1
\* number of levels one side of the raw book may grow to
MaxLevels == 2
\* largest amount a level carries
MaxAmount == 1

Symbols == {"A", "B"}
\* price values, in tenths: 1.4, 1.5
Prices == {14, 15}

(* --------------------------- decimal strings --------------------------- *)
Str(v, z) == [v |-> v, z |-> z]

\* price texts a depth message may carry: canonical or with a trailing zero
PriceTexts == {Str(v, z) : v \in Prices, z \in {0, 1}}
\* price texts of a snapshot: canonical
SnapPriceTexts == {Str(v, 0) : v \in Prices}
AmountTexts == {Str(a, 0) : a \in 0..MaxAmount}

parseFloat(s) == s.v

\* a null element of a change array: destructuring [price, amount] throws
NullEntry == <<>>

(* ------------------------- array helpers (JS) -------------------------- *)
\* Array.prototype.findIndex with the test level[0] === price; 0 for -1
findIndex(side, price) ==
    IF \E i \in 1..Len(side) : side[i][1] = price
    THEN CHOOSE i \in 1..Len(side) :
            /\ side[i][1] = price
            /\ \A j \in 1..(i - 1) : side[j][1] # price
    ELSE 0

\* Array.prototype.splice(index, 1)
splice(side, index) ==
    [i \in 1..(Len(side) - 1) |-> IF i < index THEN side[i] ELSE side[i + 1]]

\* comparators of the two sort calls: negative result = a goes first
bidBefore(a, b) == parseFloat(b[1]) - parseFloat(a[1]) < 0
askBefore(a, b) == parseFloat(a[1]) - parseFloat(b[1]) < 0
Before(a, b, type) == IF type = "bid" THEN bidBefore(a, b) ELSE askBefore(a, b)

\* insert x into an already sorted array behind every element it does not
\* strictly precede (Array.prototype.sort is stable)
InsertStable(sorted, x, type) ==
    LET k == Cardinality({i \in 1..Len(sorted) : ~Before(x, sorted[i], type)})
        \* in a sorted array those elements are exactly the first k
    IN  [i \in 1..(Len(sorted) + 1) |->
            IF i <= k THEN sorted[i]
            ELSE IF i = k + 1 THEN x
            ELSE sorted[i - 1]]

RECURSIVE sort(_, _)
sort(side, type) ==
    IF side = <<>> THEN <<>>
    ELSE InsertStable(sort(SubSeq(side, 1, Len(side) - 1), type),
                      side[Len(side)], type)

(* -------------------------- applyDepthUpdate --------------------------- *)
\* body of one forEach callback: delete, replace or push one level
ApplyChange(side, change) ==
    LET price  == change[1]
        amount == change[2]
        index  == findIndex(side, price)
    IN  IF parseFloat(amount) = 0
        THEN IF index # 0 THEN splice(side, index) ELSE side
        ELSE IF index # 0
             THEN [side EXCEPT ![index] = <<price, amount>>]
             ELSE Append(side, <<price, amount>>)

\* data.bids.forEach / data.asks.forEach: the side as mutated so far, and
\* whether a callback threw (null element) and ended the loop
RECURSIVE ForEachChange(_, _)
ForEachChange(side, changes) ==
    IF changes = <<>> THEN [side |-> side, threw |-> FALSE]
    ELSE IF Head(changes) = NullEntry THEN [side |-> side, threw |-> TRUE]
    ELSE ForEachChange(ApplyChange(side, Head(changes)), Tail(changes))

\* applyDepthUpdate(data) on the book: bids loop, bids sort, asks loop,
\* asks sort; an exception leaves what was mutated before it
applyDepthUpdate(book, data) ==
    LET b == ForEachChange(book.bids, data.bids)
        a == ForEachChange(book.asks, data.asks)
    IN  IF b.threw
        THEN [bids |-> b.side, asks |-> book.asks, threw |-> TRUE]
        ELSE IF a.threw
        THEN [bids |-> sort(b.side, "bid"), asks |-> a.side, threw |-> TRUE]
        ELSE [bids |-> sort(b.side, "bid"), asks |-> sort(a.side, "ask"),
              threw |-> FALSE]

(* --------------------------- updateOrderbook --------------------------- *)
\* the value read from a field the message does not carry
Undefined == -1

\* what parseFloat returns for a text that is not a number
NaN == -2

\* + and * on JavaScript numbers: NaN is absorbing
Plus(a, b) == IF a = NaN \/ b = NaN THEN NaN ELSE a + b
Times(a, b) == IF a = NaN \/ b = NaN THEN NaN ELSE a * b

\* a <= b on JavaScript values: undefined converts to NaN, and every
\* comparison with NaN is false
LessOrEqual(a, b) == a # Undefined /\ b # Undefined /\ a <= b

\* the guard written with < : a message at the book's own id passes
IsOldStrict(book, data) == data.lastUpdateId < book.lastUpdateId

\* the update-id test that guards the handler
IsOld(book, data) == LessOrEqual(data.lastUpdateId, book.lastUpdateId)

\* outcome of the handler: early return, exception caught, or applied
Outcome(book, data) ==
    IF IsOld(book, data) THEN "returned"
    ELSE IF applyDepthUpdate(book, data).threw THEN "threw"
    ELSE "applied"

updateOrderbook(book, data) ==
    IF IsOld(book, data) THEN book
    ELSE LET r == applyDepthUpdate(book, data)
         IN  IF r.threw
             THEN [bids |-> r.bids, asks |-> r.asks,
                   lastUpdateId |-> book.lastUpdateId]
             ELSE [bids |-> r.bids, asks |-> r.asks,
                   lastUpdateId |-> data.lastUpdateId]

(* --------------------------- groupByPrecision -------------------------- *)
\* grid step, in tenths, of a price rounded to the given number of digits:
\* price values carry one decimal digit
Unit(precision) == IF precision >= 1 THEN 1 ELSE 10

\* new Decimal(price).toFixed(precision): decimal.js rounds half up; the
\* result names the one canonical text of the rounded value
toFixed(price, precision) ==
    Str(((2 * parseFloat(price) + Unit(precision)) \div (2 * Unit(precision)))
            * Unit(precision), 0)

\* position of a key in the Map's insertion order, 0 if absent
KeyIndex(grouped, key) ==
    IF \E i \in 1..Len(grouped) : grouped[i].price = key
    THEN CHOOSE i \in 1..Len(grouped) : grouped[i].price = key
    ELSE 0

\* the entry overwritten with the last amount instead of accumulated
MapSetOverwrite(grouped, key, amount) ==
    LET i == KeyIndex(grouped, key)
    IN  IF i = 0
        THEN Append(grouped, [price |-> key, amount |-> amount])
        ELSE [grouped EXCEPT ![i].amount = amount]

\* grouped.set(roundedPrice, (grouped.get(roundedPrice) || 0) + parseFloat(amount))
MapSet(grouped, key, amount) ==
    LET i == KeyIndex(grouped, key)
    IN  IF i = 0
        THEN Append(grouped, [price |-> key, amount |-> amount])
        ELSE [grouped EXCEPT ![i].amount = Plus(grouped[i].amount, amount)]

RECURSIVE GroupInto(_, _, _)
GroupInto(grouped, orders, precision) ==
    IF orders = <<>> THEN grouped
    ELSE GroupInto(MapSet(grouped, toFixed(Head(orders)[1], precision),
                          parseFloat(Head(orders)[2])),
                   Tail(orders), precision)

\* Array.from(grouped.entries()).map(...): one {price, amount} per key, in
\* insertion order, the price parsed back to a number
groupByPrecision(orders, precision) ==
    LET grouped == GroupInto(<<>>, orders, precision)
    IN  [i \in 1..Len(grouped) |->
            [price |-> parseFloat(grouped[i].price), amount |-> grouped[i].amount]]

\* the quotient n / d as JavaScript leaves it: not rounded
Ratio(n, d) == [num |-> n, den |-> d]

\* Math.max(...orders.map(order => order.amount)), for a non-empty array:
\* NaN as soon as one argument is NaN
MathMax(orders) ==
    IF \E i \in 1..Len(orders) : orders[i].amount = NaN THEN NaN
    ELSE CHOOSE m \in {orders[i].amount : i \in 1..Len(orders)} :
            \A i \in 1..Len(orders) : orders[i].amount <= m

\* orders.map of calculateDepth: total accumulates down the array, the
\* percentage is amount / maxAmount * 100
RECURSIVE MapDepth(_, _, _)
MapDepth(orders, total, maxAmount) ==
    IF orders = <<>> THEN <<>>
    ELSE LET order == Head(orders)
             newTotal == Plus(total, order.amount)
         IN  <<[price |-> order.price,
                amount |-> order.amount,
                total |-> newTotal,
                depthPercentage |-> Ratio(Times(order.amount, 100), maxAmount)]>>
             \o MapDepth(Tail(orders), newTotal, maxAmount)

\* calculateDepth: maxAmount is taken over every order handed in
calculateDepth(orders, type) ==
    IF orders = <<>> THEN <<>> ELSE MapDepth(orders, 0, MathMax(orders))

\* Array.prototype.slice(0, end)
slice(array, end) ==
    SubSeq(array, 1, IF end < Len(array) THEN end ELSE Len(array))

\* Array.prototype.reverse
reverse(array) == [i \in 1..Len(array) |-> array[Len(array) + 1 - i]]

\* the computed processedOrderbook: group, accumulate, then cut to the depth
ProcessOrderbook(book, precision, depth) ==
    LET groupedBids == groupByPrecision(book.bids, precision)
        groupedAsks == groupByPrecision(book.asks, precision)
        processedBids == calculateDepth(groupedBids, "bid")
        processedAsks == calculateDepth(groupedAsks, "ask")
    IN  [bids |-> slice(processedBids, depth),
         asks |-> slice(processedAsks, depth)]

processedOrderbook == ProcessOrderbook(rawOrderbook, currentPrecision, currentDepth)

\* the rows the template renders: bids as processed, asks reversed
displayBids == processedOrderbook.bids
displayAsks == reverse(processedOrderbook.asks)

(* ------------------------------- inputs -------------------------------- *)
\* number of elements in one change array of a depth message
MaxChanges == 1

Changes == {<<p, a>> : p \in PriceTexts, a \in AmountTexts}
ChangeLists ==
    UNION {[1..n -> Changes \cup {NullEntry}] : n \in 0..MaxChanges}

\* depth messages: the range of update ids they cover and the two change
\* arrays; the handler reads lastUpdateId, bids and asks only
Diffs ==
    {d \in [firstId : 1..MaxId, lastUpdateId : 1..MaxId,
            bids : ChangeLists, asks : ChangeLists] :
        /\ d.firstId <= d.lastUpdateId
        /\ \/ d.bids = <<>>
           \/ d.asks = <<>>
           \/ d.asks = <<NullEntry>>}

\* what the REST endpoint returns: both sides sorted, one level per price,
\* positive amounts, best bid below best ask
SnapLevels == {<<p, a>> : p \in SnapPriceTexts, a \in AmountTexts \ {Str(0, 0)}}
SnapSides(type) ==
    {s \in UNION {[1..n -> SnapLevels] : n \in 0..1} :
        \A i \in 1..(Len(s) - 1) : Before(s[i], s[i + 1], type)}
Snapshots ==
    {b \in [bids : SnapSides("bid"), asks : SnapSides("ask"),
            lastUpdateId : 1..(MaxId - 1)] :
        \A i \in 1..Len(b.bids), j \in 1..Len(b.asks) :
            parseFloat(b.bids[i][1]) < parseFloat(b.asks[j][1])}

(* ---------------------------- initOrderbook ---------------------------- *)
\* the response merged into the rows already held instead of replacing them
ApplySnapshotMerge(book, initialData) ==
    [bids |-> initialData.bids \o book.bids, asks |-> initialData.asks \o book.asks,
     lastUpdateId |-> initialData.lastUpdateId]

\* rawOrderbook.value = initialData
ApplySnapshot(book, initialData) == initialData

\* some level of the old book is not a level of the response
Displaces(book, initialData) ==
    \/ \E i \in 1..Len(book.bids) :
          \A j \in 1..Len(initialData.bids) : initialData.bids[j] # book.bids[i]
    \/ \E i \in 1..Len(book.asks) :
          \A j \in 1..Len(initialData.asks) : initialData.asks[j] # book.asks[i]

(* ------------------------------- state --------------------------------- *)
\* props.precision default
DefaultPrecision == 2

NoData == [none |-> TRUE]
\* the update ids of a depth message
Ids(d) == [firstId |-> d.firstId, lastUpdateId |-> d.lastUpdateId]
Evt(kind, sym, data, outcome) ==
    [kind |-> kind, sym |-> sym, data |-> data, outcome |-> outcome]

\* wsStore.subscribe / wsStore.unsubscribe of the 'depth' channel: the set of
\* symbols whose messages reach the component's callback
subscribe(S, sym) == S \cup {sym}
unsubscribe(S, sym) == S \ {sym}

\* props.maxDepth when the parent passes none
DefaultMaxDepth == 20

\* the rows [price, quantity, cumulative] the dashboard starts with,
\* quantities in tenths
InitialMockBids ==
    << <<49950, 5, 5>>, <<49940, 12, 17>>, <<49930, 8, 25>>,
       <<49920, 21, 46>>, <<49910, 15, 61>> >>
InitialMockAsks ==
    << <<50050, 3, 3>>, <<50060, 9, 12>>, <<50070, 11, 23>>,
       <<50080, 7, 30>>, <<50090, 20, 50>> >>

\* the trading store after defineStore: no account, no orders, no error
NoAccount == [none |-> TRUE]
InitStore ==
    /\ account = NoAccount
    /\ storeOrders = <<>>
    /\ tradingLoading = FALSE
    /\ lastError = "null"
    /\ calls = <<>>

Init ==
    /\ phase = "setup"
    /\ symbol = "A"
    /\ rawOrderbook = [bids |-> <<>>, asks |-> <<>>, lastUpdateId |-> 0]
    /\ bookOf = "none"
    /\ isLoading = TRUE
    /\ hasError = FALSE
    /\ currentPrecision = DefaultPrecision
    /\ fetches = <<>>
    /\ subs = {}
    /\ lastEvt = Evt("init", "A", NoData, "none")
    /\ maxDepth = DefaultMaxDepth
    /\ currentDepth = maxDepth
    /\ mockBids = InitialMockBids
    /\ mockAsks = InitialMockAsks
    /\ InitStore

(* ------------------------------ actions -------------------------------- *)
\* initOrderbook up to its first await: flags set, getOrderBook requested
\* for the symbol the prop holds at the call
CallInitOrderbook(limit) ==
    /\ Len(fetches) < limit
    /\ isLoading' = TRUE
    /\ hasError' = FALSE
    /\ fetches' = Append(fetches, [sym |-> symbol', stage |-> "book"])

\* onMounted
Mount(limit) ==
    /\ phase = "setup"
    /\ phase' = "mounted"
    /\ symbol' = symbol
    /\ CallInitOrderbook(limit)
    /\ subs' = subscribe(subs, symbol)
    /\ lastEvt' = Evt("mount", symbol, NoData, "none")
    /\ UNCHANGED <<rawOrderbook, bookOf, currentPrecision>>
    /\ UNCHANGED <<depthVars, dashVars>>
    /\ UNCHANGED storeVars

\* await marketStore.getOrderBook resolves: the response becomes the book
OrderBookResolves(i, snap) ==
    /\ i \in 1..Len(fetches)
    /\ fetches[i].stage = "book"
    /\ rawOrderbook' = ApplySnapshot(rawOrderbook, snap)
    /\ bookOf' = fetches[i].sym
    /\ fetches' = [fetches EXCEPT ![i].stage = "ticker"]
    /\ lastEvt' = Evt("snapshot", fetches[i].sym, snap,
                      IF Displaces(rawOrderbook, snap) THEN "replaced" ELSE "loaded")
    /\ UNCHANGED <<phase, symbol, isLoading, hasError, currentPrecision, subs>>
    /\ UNCHANGED <<depthVars, dashVars>>
    /\ UNCHANGED storeVars

\* await marketStore.getOrderBook rejects: catch, finally
OrderBookRejects(i) ==
    /\ i \in 1..Len(fetches)
    /\ fetches[i].stage = "book"
    /\ hasError' = TRUE
    /\ isLoading' = FALSE
    /\ fetches' = [fetches EXCEPT ![i].stage = "failed"]
    /\ lastEvt' = Evt("fetchError", fetches[i].sym, NoData, "none")
    /\ UNCHANGED <<phase, symbol, rawOrderbook, bookOf, currentPrecision, subs>>
    /\ UNCHANGED <<depthVars, dashVars>>
    /\ UNCHANGED storeVars

\* await marketStore.getTicker resolves: finally
TickerResolves(i) ==
    /\ i \in 1..Len(fetches)
    /\ fetches[i].stage = "ticker"
    /\ isLoading' = FALSE
    /\ fetches' = [fetches EXCEPT ![i].stage = "done"]
    /\ lastEvt' = Evt("ticker", fetches[i].sym, NoData, "none")
    /\ UNCHANGED <<phase, symbol, rawOrderbook, bookOf, hasError,
                   currentPrecision, subs>>
    /\ UNCHANGED <<depthVars, dashVars>>
    /\ UNCHANGED storeVars

\* await marketStore.getTicker rejects: catch, finally
TickerRejects(i) ==
    /\ i \in 1..Len(fetches)
    /\ fetches[i].stage = "ticker"
    /\ hasError' = TRUE
    /\ isLoading' = FALSE
    /\ fetches' = [fetches EXCEPT ![i].stage = "failed"]
    /\ lastEvt' = Evt("fetchError", fetches[i].sym, NoData, "none")
    /\ UNCHANGED <<phase, symbol, rawOrderbook, bookOf, currentPrecision, subs>>
    /\ UNCHANGED <<depthVars, dashVars>>
    /\ UNCHANGED storeVars

\* the retry button of the error panel
Retry(limit) ==
    /\ phase = "mounted"
    /\ hasError
    /\ symbol' = symbol
    /\ CallInitOrderbook(limit)
    /\ lastEvt' = Evt("retry", symbol, NoData, "none")
    /\ UNCHANGED <<phase, rawOrderbook, bookOf, currentPrecision, subs>>
    /\ UNCHANGED <<depthVars, dashVars>>
    /\ UNCHANGED storeVars

\* the 'depth' subscription callback of a subscribed symbol delivers a message
DepthMessage(s, d) ==
    /\ s \in subs
    /\ LET book == updateOrderbook(rawOrderbook, d)
       IN  /\ Len(book.bids) <= MaxLevels
           /\ Len(book.asks) <= MaxLevels
           /\ rawOrderbook' = book
    /\ lastEvt' = Evt("diff", s, Ids(d), Outcome(rawOrderbook, d))
    /\ UNCHANGED <<phase, symbol, bookOf, isLoading, hasError,
                   currentPrecision, fetches, subs>>
    /\ UNCHANGED <<depthVars, dashVars>>
    /\ UNCHANGED storeVars

\* watch(() => props.symbol): the prop already holds the new symbol when the
\* callback runs cleanupSubscription, initOrderbook, setupWebSocketSubscription
SymbolChange(s, limit) ==
    /\ phase = "mounted"
    /\ s # symbol
    /\ symbol' = s
    /\ CallInitOrderbook(limit)
    /\ subs' = subscribe(unsubscribe(subs, s), s)
    /\ lastEvt' = Evt("switch", s, NoData, "none")
    /\ UNCHANGED <<phase, rawOrderbook, bookOf, currentPrecision>>
    /\ UNCHANGED <<depthVars, dashVars>>
    /\ UNCHANGED storeVars

\* onUnmounted: cleanupSubscription
Unmount ==
    /\ phase = "mounted"
    /\ phase' = "unmounted"
    /\ subs' = unsubscribe(subs, symbol)
    /\ lastEvt' = Evt("unmount", symbol, NoData, "none")
    /\ UNCHANGED <<symbol, rawOrderbook, bookOf, isLoading, hasError,
                   currentPrecision, fetches>>
    /\ UNCHANGED <<depthVars, dashVars>>
    /\ UNCHANGED storeVars

\* the depth toggleDepth switches to when the current one is props.maxDepth
ToggledDepth == 10

\* toggleDepth, and watch(currentDepth) when the value has changed:
\* initOrderbook is called again
ToggleDepth(limit) ==
    /\ phase = "mounted"
    /\ currentDepth' = (IF currentDepth = maxDepth THEN ToggledDepth ELSE maxDepth)
    /\ symbol' = symbol
    /\ IF currentDepth' # currentDepth
       THEN CallInitOrderbook(limit)
       ELSE UNCHANGED <<isLoading, hasError, fetches>>
    /\ lastEvt' = Evt("depth", symbol, NoData, "none")
    /\ UNCHANGED <<phase, rawOrderbook, bookOf, currentPrecision, subs, maxDepth>>
    /\ UNCHANGED dashVars
    /\ UNCHANGED storeVars

\* a precision change that also reloads the book, as the depth watcher does
HandlePrecisionChangeReload(precision) ==
    /\ phase = "mounted"
    /\ precision # currentPrecision
    /\ currentPrecision' = precision
    /\ isLoading' = TRUE
    /\ hasError' = FALSE
    /\ fetches' = Append(fetches, [sym |-> symbol, stage |-> "book"])
    /\ lastEvt' = Evt("precision", symbol, NoData, "none")
    /\ UNCHANGED <<phase, symbol, rawOrderbook, bookOf, subs>>
    /\ UNCHANGED <<depthVars, dashVars>>
    /\ UNCHANGED storeVars

\* handlePrecisionChange
HandlePrecisionChange(precision) ==
    /\ phase = "mounted"
    /\ precision # currentPrecision
    /\ currentPrecision' = precision
    /\ lastEvt' = Evt("precision", symbol, NoData, "none")
    /\ UNCHANGED <<phase, symbol, rawOrderbook, bookOf, isLoading, hasError,
                   fetches, subs>>
    /\ UNCHANGED <<depthVars, dashVars>>
    /\ UNCHANGED storeVars

Next ==
    \/ Mount(MaxFetches)
    \/ \E i \in 1..MaxFetches, snap \in Snapshots : OrderBookResolves(i, snap)
    \/ \E i \in 1..MaxFetches : TickerResolves(i)
    \/ \E s \in Symbols, d \in Diffs : DepthMessage(s, d)

Spec == Init /\ [][Next]_vars

(* ---------------- session: symbol switch, failures, retry -------------- *)
\* number of initOrderbook calls in one run of the session specification
SessionFetches == 2

\* the messages and responses of the session specification: bid-side only
SessionDiffs ==
    {d \in Diffs : /\ d.asks = <<>>
                   /\ d.firstId = d.lastUpdateId
                   /\ d.bids \in {<<>>, <<<<Str(14, 0), Str(1, 0)>>>>,
                                  <<<<Str(14, 0), Str(0, 0)>>>>}}
SessionSnapshots == {b \in Snapshots : b.asks = <<>> /\ Len(b.bids) = 1}

NextSession ==
    \/ Mount(SessionFetches)
    \/ \E s \in Symbols : SymbolChange(s, SessionFetches)
    \/ \E i \in 1..SessionFetches, snap \in SessionSnapshots :
          OrderBookResolves(i, snap)
    \/ \E i \in 1..SessionFetches : OrderBookRejects(i)
    \/ \E i \in 1..SessionFetches : TickerResolves(i)
    \/ \E i \in 1..SessionFetches : TickerRejects(i)
    \/ Retry(SessionFetches)
    \/ Unmount
    \/ \E s \in Symbols, d \in SessionDiffs : DepthMessage(s, d)

SpecSession == Init /\ [][NextSession]_vars

(* ----------------- depth: the depth toggle and its reload -------------- *)
NextDepth ==
    \/ Mount(SessionFetches)
    \/ ToggleDepth(SessionFetches)
    \/ \E i \in 1..SessionFetches, snap \in SessionSnapshots :
          OrderBookResolves(i, snap)
    \/ \E i \in 1..SessionFetches : OrderBookRejects(i)
    \/ \E i \in 1..SessionFetches : TickerResolves(i)
    \/ \E s \in Symbols, d \in SessionDiffs : DepthMessage(s, d)

SpecDepth == Init /\ [][NextDepth]_vars

(* ---- malformed: depth messages without an update id or with a hole ---- *)
\* depth messages whose lastUpdateId field is absent
MalformedDiffs == {[d EXCEPT !.lastUpdateId = Undefined] : d \in SessionDiffs}

\* depth messages whose bids array holds a change followed by null
TornDiffs ==
    {[firstId |-> n, lastUpdateId |-> n,
      bids |-> <<<<Str(15, 0), Str(1, 0)>>, NullEntry>>, asks |-> <<>>] :
        n \in 1..MaxId}

\* depth messages whose one bid change carries an amount that is no number
NonNumericDiffs ==
    {[firstId |-> n, lastUpdateId |-> n,
      bids |-> <<<<Str(14, 0), Str(NaN, 0)>>>>, asks |-> <<>>] : n \in 1..MaxId}

NextMalformed ==
    \/ Mount(MaxFetches)
    \/ \E i \in 1..MaxFetches, snap \in SessionSnapshots :
          OrderBookResolves(i, snap)
    \/ \E i \in 1..MaxFetches : TickerResolves(i)
    \/ \E s \in Symbols,
          d \in SessionDiffs \cup MalformedDiffs \cup TornDiffs \cup NonNumericDiffs :
          DepthMessage(s, d)

\* values of the maxDepth prop: a window of one row, the default
ShortDepths == {1, DefaultMaxDepth}

\* the state after setup, the parent having passed either depth
InitMalformed ==
    /\ phase = "setup"
    /\ symbol = "A"
    /\ rawOrderbook = [bids |-> <<>>, asks |-> <<>>, lastUpdateId |-> 0]
    /\ bookOf = "none"
    /\ isLoading = TRUE
    /\ hasError = FALSE
    /\ currentPrecision = DefaultPrecision
    /\ fetches = <<>>
    /\ subs = {}
    /\ lastEvt = Evt("init", "A", NoData, "none")
    /\ maxDepth \in ShortDepths
    /\ currentDepth = maxDepth
    /\ mockBids = InitialMockBids
    /\ mockAsks = InitialMockAsks
    /\ InitStore

SpecMalformed == InitMalformed /\ [][NextMalformed]_vars

(* ------------------- display: a book drawn, then shown ----------------- *)
\* raw books of the display specification: up to MaxDisplayLevels levels a
\* side, prices 1.2 1.4 1.5 1.6, amounts 1..MaxDisplayAmount
MaxDisplayLevels == 3
MaxDisplayAmount == 2
DisplayPrices == {12, 14, 15, 16}
DisplayLevels ==
    {<<Str(v, 0), Str(a, 0)>> : v \in DisplayPrices, a \in 1..MaxDisplayAmount}
DisplaySides(type) ==
    {s \in UNION {[1..n -> DisplayLevels] : n \in 0..MaxDisplayLevels} :
        \A i \in 1..(Len(s) - 1) : Before(s[i], s[i + 1], type)}
DisplayPrecisions == {0, 1, 2}
\* values of the maxDepth prop the parent passes: a short window, the default
DisplayDepths == {2, DefaultMaxDepth}

InitDisplay ==
    /\ phase = "mounted"
    /\ symbol = "A"
    /\ \E b \in DisplaySides("bid"), a \in DisplaySides("ask") :
          rawOrderbook = [bids |-> b, asks |-> a, lastUpdateId |-> 1]
    /\ bookOf = "A"
    /\ isLoading = FALSE
    /\ hasError = FALSE
    /\ currentPrecision = DefaultPrecision
    /\ fetches = <<[sym |-> "A", stage |-> "done"]>>
    /\ subs = {"A"}
    /\ lastEvt = Evt("ticker", "A", NoData, "none")
    /\ maxDepth \in DisplayDepths
    /\ currentDepth = maxDepth
    /\ mockBids = InitialMockBids
    /\ mockAsks = InitialMockAsks
    /\ InitStore

NextDisplay == \E p \in DisplayPrecisions : HandlePrecisionChange(p)

SpecDisplay == InitDisplay /\ [][NextDisplay]_vars

(* ------------- dashboard: the order-book panel of the view ------------- *)
\* rows updateOrderBookPrices generates for one side
MockRows == 3
\* largest quantity, in tenths, Math.random() * 2 + 0.1 is taken to yield
MaxMockQty == 2

\* prices the tickers response reports for the selected symbol
BasePrices == {50000, 51000}
MockQuantities == [1..MockRows -> 1..MaxMockQty]

\* Array.from({length}, (_, i) => [price, quantity, quantity * (i + 1)]) with
\* price = basePrice * (1 -/+ (i + 1) * 0.001); rows are numbered from 1 here
MockSide(basePrice, sign, quantity) ==
    [i \in 1..MockRows |->
        <<basePrice + sign * i * (basePrice \div 1000), quantity[i], quantity[i] * i>>]

\* loadRealMarketData finds the selected symbol in the response and calls
\* updateOrderBookPrices with its price
LoadRealMarketData(basePrice, bidQuantity, askQuantity) ==
    /\ mockBids' = MockSide(basePrice, -1, bidQuantity)
    /\ mockAsks' = MockSide(basePrice, 1, askQuantity)
    /\ lastEvt' = Evt("reload", symbol, NoData, "none")
    /\ UNCHANGED <<phase, symbol, rawOrderbook, bookOf, isLoading, hasError,
                   currentPrecision, fetches, subs, depthVars>>
    /\ UNCHANGED storeVars

\* sides an 'orderbook' message of the dashboard's subscription carries:
\* rows [price, quantity]
OrderbookRows == {<<49990, 4>>, <<49980, 6>>}
OrderbookSides ==
    {<<>>} \cup {<<r>> : r \in OrderbookRows}
           \cup {<<r, q>> : r \in OrderbookRows, q \in OrderbookRows}

\* the messages: both sides, one of them, or neither
OrderbookMessages ==
    [bids : OrderbookSides, asks : OrderbookSides]
        \cup [bids : OrderbookSides] \cup [asks : OrderbookSides]
        \cup {[symbol |-> "A"]}

\* the 'orderbook' callback subscribed in onMounted: each side present in
\* the message replaces the rows of the panel, cut to ten
OrderbookMessage(data) ==
    /\ mockBids' = IF "bids" \in DOMAIN data THEN slice(data.bids, 10) ELSE mockBids
    /\ mockAsks' = IF "asks" \in DOMAIN data THEN slice(data.asks, 10) ELSE mockAsks
    /\ lastEvt' = Evt("orderbook", symbol, NoData, "none")
    /\ UNCHANGED <<phase, symbol, rawOrderbook, bookOf, isLoading, hasError,
                   currentPrecision, fetches, subs, depthVars>>
    /\ UNCHANGED storeVars

\* the mounted dashboard: the timer calls loadRealMarketData every second
\* and the subscription delivers messages in between
NextDashboard ==
    \/ \E basePrice \in BasePrices, bidQuantity \in MockQuantities,
          askQuantity \in MockQuantities :
           LoadRealMarketData(basePrice, bidQuantity, askQuantity)
    \/ \E data \in OrderbookMessages : OrderbookMessage(data)

SpecDashboard == Init /\ [][NextDashboard]_vars

(* ============================ trading store ============================ *)
\* submitOrder calls the model lets the user make
MaxSubmits == 2
\* cancelOrder calls the model lets the user make
MaxCancels == 1

\* ids the server gives to the orders it creates: the n-th POST creates order n
SubmitCalls == {i \in 1..Len(calls) : calls[i].op = "submit"}
CancelCalls == {i \in 1..Len(calls) : calls[i].op = "cancel"}
ServerOrderIds == {calls[i].id : i \in SubmitCalls}
OrderIds == 1..MaxSubmits
OrderStatuses == {"NEW", "FILLED"}

\* orders.value.findIndex(o => o.id === orderId), 0 standing for -1
findOrderIndex(list, orderId) ==
    IF \E i \in 1..Len(list) : list[i].id = orderId
    THEN CHOOSE i \in 1..Len(list) :
            /\ list[i].id = orderId
            /\ \A j \in 1..(i - 1) : list[j].id # orderId
    ELSE 0

unshift(list, order) == <<order>> \o list

\* submitOrder up to its await: the flags are set and the POST is sent
SubmitOrder ==
    /\ Cardinality(SubmitCalls) < MaxSubmits
    /\ tradingLoading' = TRUE
    /\ lastError' = "null"
    /\ calls' = Append(calls, [op |-> "submit",
                               id |-> Cardinality(SubmitCalls) + 1,
                               stage |-> "pending"])
    /\ lastEvt' = Evt("submit", symbol, NoData, "none")
    /\ UNCHANGED <<account, storeOrders>>
    /\ UNCHANGED <<phase, symbol, rawOrderbook, bookOf, isLoading, hasError,
                   currentPrecision, fetches, subs, depthVars, dashVars>>

\* the POST resolves: the order of the response is put at the head
SubmitResolves(i) ==
    /\ i \in SubmitCalls
    /\ calls[i].stage = "pending"
    /\ storeOrders' = unshift(storeOrders, [id |-> calls[i].id, status |-> "NEW"])
    /\ tradingLoading' = FALSE
    /\ calls' = [calls EXCEPT ![i].stage = "done"]
    /\ lastEvt' = Evt("submitted", symbol, [id |-> calls[i].id], "resolved")
    /\ UNCHANGED <<account, lastError>>
    /\ UNCHANGED <<phase, symbol, rawOrderbook, bookOf, isLoading, hasError,
                   currentPrecision, fetches, subs, depthVars, dashVars>>

\* the POST rejects: the message is kept and the error thrown on
SubmitRejects(i) ==
    /\ i \in SubmitCalls
    /\ calls[i].stage = "pending"
    /\ lastError' = "submit"
    /\ tradingLoading' = FALSE
    /\ calls' = [calls EXCEPT ![i].stage = "failed"]
    /\ lastEvt' = Evt("submitted", symbol, [id |-> calls[i].id], "threw")
    /\ UNCHANGED <<account, storeOrders>>
    /\ UNCHANGED <<phase, symbol, rawOrderbook, bookOf, isLoading, hasError,
                   currentPrecision, fetches, subs, depthVars, dashVars>>

\* cancelOrder up to its await: the DELETE is sent, no flag is touched
CancelOrder(orderId) ==
    /\ Cardinality(CancelCalls) < MaxCancels
    /\ calls' = Append(calls, [op |-> "cancel", id |-> orderId,
                               stage |-> "pending"])
    /\ lastEvt' = Evt("cancel", symbol, [id |-> orderId], "none")
    /\ UNCHANGED <<account, storeOrders, tradingLoading, lastError>>
    /\ UNCHANGED <<phase, symbol, rawOrderbook, bookOf, isLoading, hasError,
                   currentPrecision, fetches, subs, depthVars, dashVars>>

\* the local update of cancelOrder after the DELETE has resolved
MarkFirst(list, orderId) ==
    IF list = <<>> THEN list ELSE [list EXCEPT ![1].status = "CANCELED"]
MarkCanceled(list, orderId) ==
    LET orderIndex == findOrderIndex(list, orderId)
    IN  IF orderIndex # 0
        THEN [list EXCEPT ![orderIndex].status = "CANCELED"]
        ELSE list

CancelResolves(i) ==
    /\ i \in CancelCalls
    /\ calls[i].stage = "pending"
    /\ storeOrders' = MarkCanceled(storeOrders, calls[i].id)
    /\ calls' = [calls EXCEPT ![i].stage = "done"]
    /\ lastEvt' = Evt("canceled", symbol, [id |-> calls[i].id], "resolved")
    /\ UNCHANGED <<account, tradingLoading, lastError>>
    /\ UNCHANGED <<phase, symbol, rawOrderbook, bookOf, isLoading, hasError,
                   currentPrecision, fetches, subs, depthVars, dashVars>>

\* the DELETE rejects: the message is kept and the error thrown on
CancelRejects(i) ==
    /\ i \in CancelCalls
    /\ calls[i].stage = "pending"
    /\ lastError' = "cancel"
    /\ calls' = [calls EXCEPT ![i].stage = "failed"]
    /\ lastEvt' = Evt("canceled", symbol, [id |-> calls[i].id], "threw")
    /\ UNCHANGED <<account, storeOrders, tradingLoading>>
    /\ UNCHANGED <<phase, symbol, rawOrderbook, bookOf, isLoading, hasError,
                   currentPrecision, fetches, subs, depthVars, dashVars>>

updateOrder(list, orderData) ==
    LET orderIndex == findOrderIndex(list, orderData.id)
    IN  IF orderIndex # 0
        THEN [list EXCEPT ![orderIndex] = orderData]
        ELSE unshift(list, orderData)

\* balances an ACCOUNT_UPDATE or the account response reports
MaxBalance == 2
Balances == 0..MaxBalance

\* user-data events of the socket: the server reports the orders it has created
OrderTradeUpdates ==
    [eventType : {"ORDER_TRADE_UPDATE"},
     orderData : [id : ServerOrderIds, status : OrderStatuses]]
AccountUpdates ==
    [eventType : {"ACCOUNT_UPDATE"},
     accountData : [availableBalance : Balances]]

UpdateUserData(data) ==
    /\ IF data.eventType = "ACCOUNT_UPDATE"
       THEN /\ account' = (IF account # NoAccount THEN data.accountData
                           ELSE account)
            /\ UNCHANGED storeOrders
       ELSE /\ storeOrders' = updateOrder(storeOrders, data.orderData)
            /\ UNCHANGED account
    /\ lastEvt' = Evt("userData", symbol, data, "none")
    /\ UNCHANGED <<tradingLoading, lastError, calls>>
    /\ UNCHANGED <<phase, symbol, rawOrderbook, bookOf, isLoading, hasError,
                   currentPrecision, fetches, subs, depthVars, dashVars>>

NextTrading ==
    \/ SubmitOrder
    \/ \E i \in 1..Len(calls) : SubmitResolves(i)
    \/ \E i \in 1..Len(calls) : SubmitRejects(i)
    \/ \E orderId \in OrderIds : CancelOrder(orderId)
    \/ \E i \in 1..Len(calls) : CancelResolves(i)
    \/ \E i \in 1..Len(calls) : CancelRejects(i)
    \/ \E data \in OrderTradeUpdates : UpdateUserData(data)

SpecTrading == Init /\ [][NextTrading]_vars

\* orders the account's order list holds once loadUserData has resolved
MaxOrders == 2
LoadedOrders ==
    UNION {[1..n -> [id : OrderIds, status : OrderStatuses \cup {"CANCELED"}]] :
           n \in 0..MaxOrders}

\* the store once loadUserData has resolved: the order list is the server's
\* the order-book component and the dashboard panel as Init leaves them
InitViews ==
    /\ phase = "setup"
    /\ symbol = "A"
    /\ rawOrderbook = [bids |-> <<>>, asks |-> <<>>, lastUpdateId |-> 0]
    /\ bookOf = "none"
    /\ isLoading = TRUE
    /\ hasError = FALSE
    /\ currentPrecision = DefaultPrecision
    /\ fetches = <<>>
    /\ subs = {}
    /\ lastEvt = Evt("init", "A", NoData, "none")
    /\ maxDepth = DefaultMaxDepth
    /\ currentDepth = DefaultMaxDepth
    /\ mockBids = InitialMockBids
    /\ mockAsks = InitialMockAsks

InitLoaded ==
    /\ InitViews
    /\ account \in [availableBalance : Balances]
    /\ storeOrders \in LoadedOrders
    /\ tradingLoading = FALSE
    /\ lastError = "null"
    /\ calls = <<>>

NextCancel ==
    \/ \E orderId \in OrderIds : CancelOrder(orderId)
    \/ \E i \in 1..Len(calls) : CancelResolves(i)
    \/ \E i \in 1..Len(calls) : CancelRejects(i)

SpecCancel == InitLoaded /\ [][NextCancel]_vars

\* order requests handed to validateOrder; a price may be left out
MaxQuantity == 2
MaxPrice == 2
OrderRequests ==
    [symbol : {"", "A"}, side : {"BUY", "SELL"}, type : {"MARKET", "LIMIT"},
     quantity : 0..MaxQuantity, price : {Undefined} \cup 0..MaxPrice]

calculateOrderValue(price, quantity) == price * quantity

\* price || 0
PriceOrZero(price) == IF price = Undefined THEN 0 ELSE price

validateOrder(orderRequest) ==
    IF orderRequest.symbol = ""
    THEN [valid |-> FALSE, error |-> "symbol"]
    ELSE IF orderRequest.quantity <= 0
    THEN [valid |-> FALSE, error |-> "quantity"]
    ELSE IF /\ orderRequest.type = "LIMIT"
            /\ (orderRequest.price = Undefined \/ orderRequest.price <= 0)
    THEN [valid |-> FALSE, error |-> "price"]
    ELSE IF /\ account # NoAccount
            /\ orderRequest.side = "BUY"
            /\ calculateOrderValue(PriceOrZero(orderRequest.price),
                                   orderRequest.quantity)
                  > account.availableBalance
    THEN [valid |-> FALSE, error |-> "balance"]
    ELSE [valid |-> TRUE, error |-> "none"]

\* a call of validateOrder: the store is read, nothing is written
ValidateOrder(orderRequest) ==
    /\ lastEvt' = Evt("validate", symbol, orderRequest,
                      IF validateOrder(orderRequest).valid THEN "valid"
                      ELSE validateOrder(orderRequest).error)
    /\ UNCHANGED storeVars
    /\ UNCHANGED <<phase, symbol, rawOrderbook, bookOf, isLoading, hasError,
                   currentPrecision, fetches, subs, depthVars, dashVars>>

\* the store with or without a loaded account
InitValidate ==
    /\ InitViews
    /\ account \in {NoAccount} \cup [availableBalance : Balances]
    /\ storeOrders = <<>>
    /\ tradingLoading = FALSE
    /\ lastError = "null"
    /\ calls = <<>>

NextValidate ==
    \/ \E orderRequest \in OrderRequests : ValidateOrder(orderRequest)
    \/ \E data \in AccountUpdates : UpdateUserData(data)

SpecValidate == InitValidate /\ [][NextValidate]_vars

(* ============================ properties =============================== *)
\* a snapshot has been applied: diffs are being applied on top of it
Synced == bookOf # "none"

\* classification of a depth message against the book's sequence position
Classify(book, ids) ==
    IF ids.lastUpdateId <= book.lastUpdateId THEN "STALE"
    ELSE IF ids.firstId > book.lastUpdateId + 1 THEN "GAP"
    ELSE "APPLY"

SameLevels(a, b) == a.bids = b.bids /\ a.asks = b.asks

\* C1: with a snapshot applied, a depth message whose firstId is beyond
\* syncId + 1 changes no level of the book, and one with
\* firstId <= syncId + 1 <= finalId is passed on to be applied.
C1_GapIsNotApplied ==
    [][(lastEvt'.kind = "diff" /\ Synced) =>
          /\ Classify(rawOrderbook, lastEvt'.data) = "GAP"
                => SameLevels(rawOrderbook', rawOrderbook)
          /\ Classify(rawOrderbook, lastEvt'.data) = "APPLY"
                => lastEvt'.outcome # "returned"]_vars

\* numeric prices strictly ordered, hence no price twice
StrictlyOrdered(side, type) ==
    \A i \in 1..(Len(side) - 1) : Before(side[i], side[i + 1], type)
PositiveAmounts(side) == \A i \in 1..Len(side) : parseFloat(side[i][2]) > 0

\* C2: in every reachable state bids are strictly decreasing and asks
\* strictly increasing in price, and every stored amount is positive.
C2_SidesStrictlyOrdered ==
    /\ StrictlyOrdered(rawOrderbook.bids, "bid")
    /\ StrictlyOrdered(rawOrderbook.asks, "ask")
    /\ PositiveAmounts(rawOrderbook.bids)
    /\ PositiveAmounts(rawOrderbook.asks)

\* C3: a snapshot response that becomes the book belongs to the symbol
\* selected when it resolves; one requested for an earlier symbol is dropped.
C3_StaleSnapshotDiscarded ==
    [][lastEvt'.kind = "snapshot" => lastEvt'.sym = symbol]_vars

\* C4: a depth message whose last update id is not above the book's leaves
\* both sides and the update id as they were.
C4_StaleDiffIsNoOp ==
    [][(lastEvt'.kind = "diff"
          /\ lastEvt'.data.lastUpdateId <= rawOrderbook.lastUpdateId)
        => rawOrderbook' = rawOrderbook]_vars

\* a message at the book's own update id was delivered to a loaded, non-empty
\* book and the handler returned early
C4_Witness ==
    /\ Synced
    /\ lastEvt.kind = "diff"
    /\ lastEvt.outcome = "returned"
    /\ lastEvt.data.lastUpdateId = rawOrderbook.lastUpdateId
    /\ rawOrderbook.bids # <<>>

\* the numeric prices a change array names
Named(changes) ==
    {parseFloat(changes[i][1]) : i \in {j \in 1..Len(changes) : changes[j] # NullEntry}}
\* the last change of the array for a numeric price
LastFor(changes, v) ==
    changes[CHOOSE i \in 1..Len(changes) :
                /\ changes[i] # NullEntry
                /\ parseFloat(changes[i][1]) = v
                /\ \A j \in (i + 1)..Len(changes) :
                      changes[j] = NullEntry \/ parseFloat(changes[j][1]) # v]
LevelsAt(side, v) == {i \in 1..Len(side) : parseFloat(side[i][1]) = v}
Untouched(side, changes) ==
    {side[i] : i \in {j \in 1..Len(side) : parseFloat(side[j][1]) \notin Named(changes)}}

\* the changes of one array have landed on a side
Landed(old, changes, new) ==
    /\ \A v \in Named(changes) :
          IF parseFloat(LastFor(changes, v)[2]) = 0
          THEN LevelsAt(new, v) = {}
          ELSE /\ Cardinality(LevelsAt(new, v)) = 1
               /\ \A i \in LevelsAt(new, v) :
                     parseFloat(new[i][2]) = parseFloat(LastFor(changes, v)[2])
    /\ Untouched(new, changes) = Untouched(old, changes)

\* C5: an applied depth message leaves, for every price it names, no level
\* at that price when the amount is zero and exactly one level with the
\* carried amount otherwise; levels at other prices are unchanged.
C5_DiffSetsAbsoluteLevels ==
    [][\A s \in Symbols, d \in Diffs :
          (DepthMessage(s, d) /\ lastEvt'.outcome = "applied") =>
              /\ Landed(rawOrderbook.bids, d.bids, rawOrderbook'.bids)
              /\ Landed(rawOrderbook.asks, d.asks, rawOrderbook'.asks)]_vars

\* C6: with a snapshot applied, an applied depth message sets the update id
\* to its last id, and a stale, gapped or failing one leaves it unchanged.
C6_SyncIdFollowsAppliedDiffs ==
    [][(lastEvt'.kind = "diff" /\ Synced) =>
          /\ lastEvt'.outcome = "applied"
                => rawOrderbook'.lastUpdateId = lastEvt'.data.lastUpdateId
          /\ (\/ Classify(rawOrderbook, lastEvt'.data) \in {"STALE", "GAP"}
              \/ lastEvt'.outcome = "threw")
                => rawOrderbook'.lastUpdateId = rawOrderbook.lastUpdateId]_vars

\* C7: a depth message either runs to completion, every change processed and
\* the update id set to its last id, or leaves the book as it was.
C7_DiffIsAtomic ==
    [][lastEvt'.kind = "diff" =>
          \/ /\ lastEvt'.outcome = "applied"
             /\ rawOrderbook'.lastUpdateId = lastEvt'.data.lastUpdateId
          \/ rawOrderbook' = rawOrderbook]_vars

\* C8: the step that takes a snapshot response makes both sides exactly the
\* response's sides and the update id the response's.
C8_SnapshotReplacesBook ==
    [][lastEvt'.kind = "snapshot" =>
          /\ rawOrderbook'.bids = lastEvt'.data.bids
          /\ rawOrderbook'.asks = lastEvt'.data.asks
          /\ rawOrderbook'.lastUpdateId = lastEvt'.data.lastUpdateId]_vars

\* a response was taken while the book held a level the response lacks
C8_Witness ==
    /\ lastEvt.kind = "snapshot"
    /\ lastEvt.outcome = "replaced"
    /\ rawOrderbook.bids = lastEvt.data.bids

\* first row of each side: the best price of a sorted side
BestBid(book) == parseFloat(book.bids[1][1])
BestAsk(book) == parseFloat(book.asks[1][1])

\* C9: with a snapshot applied and both sides non-empty, the best bid is
\* strictly below the best ask.
C9_BookNeverCrossed ==
    (Synced /\ rawOrderbook.bids # <<>> /\ rawOrderbook.asks # <<>>)
        => BestBid(rawOrderbook) < BestAsk(rawOrderbook)

RECURSIVE SumRounding(_, _, _)
\* sum of the amounts of the raw levels whose price rounds to r
SumRounding(orders, precision, r) ==
    IF orders = <<>> THEN 0
    ELSE (IF parseFloat(toFixed(Head(orders)[1], precision)) = r
          THEN parseFloat(Head(orders)[2]) ELSE 0)
         + SumRounding(Tail(orders), precision, r)

RECURSIVE SumRaw(_)
SumRaw(orders) ==
    IF orders = <<>> THEN 0 ELSE parseFloat(Head(orders)[2]) + SumRaw(Tail(orders))
RECURSIVE SumOut(_)
SumOut(out) == IF out = <<>> THEN 0 ELSE Head(out).amount + SumOut(Tail(out))

RoundedPrices(orders, precision) ==
    {parseFloat(toFixed(orders[i][1], precision)) : i \in 1..Len(orders)}

Aggregates(orders, precision) ==
    LET out == groupByPrecision(orders, precision)
    IN  /\ {out[i].price : i \in 1..Len(out)} = RoundedPrices(orders, precision)
        /\ \A r \in RoundedPrices(orders, precision) :
              /\ Cardinality({i \in 1..Len(out) : out[i].price = r}) = 1
              /\ \A i \in 1..Len(out) :
                    out[i].price = r
                        => out[i].amount = SumRounding(orders, precision, r)
        /\ SumOut(out) = SumRaw(orders)

\* C10: grouping a side at the current precision yields, for every rounded
\* price, exactly one level whose amount is the sum of the raw amounts
\* rounding to it, and no other level; the amounts of the output add up to
\* the amounts of the input.
C10_GroupingSumsPerRoundedPrice ==
    /\ Aggregates(rawOrderbook.bids, currentPrecision)
    /\ Aggregates(rawOrderbook.asks, currentPrecision)

\* two raw bids of different price share one rounded price at the current
\* precision while a third rounds elsewhere
C10_Witness ==
    /\ lastEvt.kind = "precision"
    /\ \E i, j, k \in 1..Len(rawOrderbook.bids) :
          /\ parseFloat(rawOrderbook.bids[i][1]) # parseFloat(rawOrderbook.bids[j][1])
          /\ toFixed(rawOrderbook.bids[i][1], currentPrecision)
                = toFixed(rawOrderbook.bids[j][1], currentPrecision)
          /\ toFixed(rawOrderbook.bids[k][1], currentPrecision)
                # toFixed(rawOrderbook.bids[i][1], currentPrecision)

(* ------------------------ C11: rounding direction ---------------------- *)
RawPrices(side) == {parseFloat(side[i][1]) : i \in 1..Len(side)}
ShownPrices(rows) == {rows[i].price : i \in 1..Len(rows)}

\* C11: at the current precision every raw bid falls into a bucket priced at
\* or below it and every raw ask into a bucket priced at or above it, so no
\* displayed bid lies above every raw bid and no displayed ask below every
\* raw ask.
C11_BidsRoundDownAsksRoundUp ==
    /\ \A i \in 1..Len(rawOrderbook.bids) :
          parseFloat(toFixed(rawOrderbook.bids[i][1], currentPrecision))
              <= parseFloat(rawOrderbook.bids[i][1])
    /\ \A i \in 1..Len(rawOrderbook.asks) :
          parseFloat(toFixed(rawOrderbook.asks[i][1], currentPrecision))
              >= parseFloat(rawOrderbook.asks[i][1])
    /\ \A p \in ShownPrices(displayBids) :
          \E r \in RawPrices(rawOrderbook.bids) : p <= r
    /\ \A p \in ShownPrices(displayAsks) :
          \E r \in RawPrices(rawOrderbook.asks) : p >= r

(* ------------------------ C12: cumulative column ----------------------- *)
RECURSIVE SumAmounts(_, _)
SumAmounts(rows, i) ==
    IF i = 0 THEN 0 ELSE rows[i].amount + SumAmounts(rows, i - 1)
RECURSIVE SumQuantities(_, _)
SumQuantities(rows, i) ==
    IF i = 0 THEN 0 ELSE rows[i][2] + SumQuantities(rows, i - 1)

\* the component's rows carry the running sum of their amounts
ComponentCumulative(rows) ==
    \A i \in 1..Len(rows) : rows[i].total = SumAmounts(rows, i)
\* the dashboard's rows [price, quantity, cumulative] carry the running sum
DashboardCumulative(rows) ==
    \A i \in 1..Len(rows) :
        Len(rows[i]) >= 3 /\ rows[i][3] = SumQuantities(rows, i)

\* C12: on every displayed side, the cumulative value of the i-th row is the
\* sum of the quantities of rows 1..i, in the component's processed sides and
\* in the dashboard's panel alike.
C12_CumulativeIsRunningSum ==
    /\ ComponentCumulative(processedOrderbook.bids)
    /\ ComponentCumulative(processedOrderbook.asks)
    /\ DashboardCumulative(mockBids)
    /\ DashboardCumulative(mockAsks)

\* the component's half of C12 alone
ComponentCumulativeHolds ==
    /\ ComponentCumulative(processedOrderbook.bids)
    /\ ComponentCumulative(processedOrderbook.asks)

(* ------------------------ C13: depth percentage ------------------------ *)
\* the largest amount among the rows of a non-empty window
MaxInWindow(rows) ==
    CHOOSE m \in {rows[i].amount : i \in 1..Len(rows)} :
        \A i \in 1..Len(rows) : rows[i].amount <= m

\* round(100 * amount / maxAmount), halves rounded up
RoundedPercent(amount, maxAmount) == (200 * amount + maxAmount) \div (2 * maxAmount)

\* the ratio denotes exactly the integer r
IsInteger(ratio, r) == ratio.den # 0 /\ ratio.num = r * ratio.den

PercentOfWindow(rows) ==
    rows # <<>> =>
        /\ \A i \in 1..Len(rows) :
              /\ IsInteger(rows[i].depthPercentage,
                           RoundedPercent(rows[i].amount, MaxInWindow(rows)))
              /\ RoundedPercent(rows[i].amount, MaxInWindow(rows)) \in 0..100
        /\ \E i \in 1..Len(rows) : IsInteger(rows[i].depthPercentage, 100)

\* C13: on each displayed side every row's depth percentage is the integer
\* round(100 * amount / m), m being the largest amount among the rows left
\* after cutting to the depth limit; it lies in 0..100 and the largest
\* displayed row has 100.
C13_PercentOfDisplayedMaximum ==
    /\ PercentOfWindow(processedOrderbook.bids)
    /\ PercentOfWindow(processedOrderbook.asks)

(* ------------------------ C14: precision change ------------------------ *)
\* C14: a step that changes the display precision leaves the raw book, its
\* lastUpdateId, the set of snapshot requests and the load flags as they
\* were, and the processed book after the step is the raw book of before the
\* step grouped at the new precision.
C14_PrecisionChangeIsLocal ==
    [][currentPrecision' # currentPrecision =>
          /\ rawOrderbook' = rawOrderbook
          /\ fetches' = fetches
          /\ isLoading' = isLoading
          /\ hasError' = hasError
          /\ ProcessOrderbook(rawOrderbook', currentPrecision', currentDepth')
                = ProcessOrderbook(rawOrderbook, currentPrecision', currentDepth)]_vars

\* the precision was changed and the processed book differs from the one
\* the default precision gives
C14_Witness ==
    /\ lastEvt.kind = "precision"
    /\ currentPrecision # DefaultPrecision
    /\ processedOrderbook
          # ProcessOrderbook(rawOrderbook, DefaultPrecision, currentDepth)

(* ------------------------- C15: reported status ------------------------ *)
\* the book on display is not a loaded book of the selected symbol: none of
\* its snapshots has been applied last, or a getOrderBook request for it is
\* still pending, or the request issued last has failed
NotSynchronized ==
    \/ bookOf # symbol
    \/ \E i \in 1..Len(fetches) :
          fetches[i].sym = symbol /\ fetches[i].stage = "book"
    \/ fetches # <<>> /\ fetches[Len(fetches)].stage = "failed"

\* C15: while the component is mounted and the book is not synchronized for
\* the selected symbol, the loading or the error indicator is on.
C15_UnsyncedIsReported ==
    (phase = "mounted" /\ NotSynchronized) => (isLoading \/ hasError)

(* --------------------------- C16: gap reset ---------------------------- *)
\* C16: with a snapshot applied, the step that handles a depth message
\* whose firstId lies beyond syncId + 1 empties both sides, turns the
\* loading state on and issues one more snapshot request.
C16_GapForcesReset ==
    [][(/\ lastEvt'.kind = "diff"
        /\ Synced
        /\ Classify(rawOrderbook, lastEvt'.data) = "GAP") =>
          /\ rawOrderbook'.bids = <<>>
          /\ rawOrderbook'.asks = <<>>
          /\ isLoading'
          /\ Len(fetches') = Len(fetches) + 1
          /\ fetches'[Len(fetches')].stage = "book"]_vars

(* ---------------------- C17: diffs of a past session ------------------- *)
\* C17: a depth message of a symbol other than the selected one, or one
\* arriving after the component was unmounted, leaves the book as it was.
C17_PastSessionDiffsDiscarded ==
    [][(/\ lastEvt'.kind = "diff"
        /\ (lastEvt'.sym # symbol \/ phase = "unmounted")) =>
          rawOrderbook' = rawOrderbook]_vars

(* ----------------------- C18: diffs before a snapshot ------------------ *)
\* C18: while no snapshot has been applied, a depth message changes neither
\* the sides nor the lastUpdateId of the book, and the book stays without a
\* snapshot.
C18_DiffBeforeSnapshotNotApplied ==
    [][(lastEvt'.kind = "diff" /\ ~Synced) =>
          /\ rawOrderbook' = rawOrderbook
          /\ ~Synced']_vars

(* ------------------- C19: snapshot / diff reconciliation --------------- *)
\* C19: the book left by the arrival of a snapshot is that snapshot, whatever
\* depth messages were handled before it, and the first depth message
\* applied on top of a snapshot with id S has firstId <= S + 1 <= finalId.
C19_FirstDiffCoversSnapshot ==
    [][/\ lastEvt'.kind = "snapshot" => rawOrderbook' = lastEvt'.data
       /\ (/\ lastEvt.kind = "snapshot"
           /\ lastEvt'.kind = "diff"
           /\ lastEvt'.outcome = "applied") =>
             /\ lastEvt'.data.firstId <= rawOrderbook.lastUpdateId + 1
             /\ rawOrderbook.lastUpdateId + 1 <= lastEvt'.data.lastUpdateId]_vars

(* ------------------------- C20: malformed diffs ------------------------ *)
\* C20: with a snapshot applied, the step that handles a depth message
\* without lastUpdateId leaves
\* the book's lastUpdateId and both sides as they were and issues no
\* snapshot request, so the book's lastUpdateId remains a number against
\* which later messages are compared.
C20_MalformedDiffDropped ==
    [][(/\ lastEvt'.kind = "diff"
        /\ Synced
        /\ lastEvt'.data.lastUpdateId = Undefined) =>
          /\ rawOrderbook' = rawOrderbook
          /\ fetches' = fetches
          /\ rawOrderbook'.lastUpdateId # Undefined]_vars

(* ------------------------ C21: failed snapshot fetch ------------------- *)
\* the request issued last has failed and none is pending
FetchFailed ==
    /\ fetches # <<>>
    /\ fetches[Len(fetches)].stage = "failed"
    /\ \A i \in 1..Len(fetches) : fetches[i].stage \notin {"book", "ticker"}

\* C21: after a snapshot request has failed and until a new one is issued,
\* a depth message is not applied: it leaves the sides and the lastUpdateId
\* of the book as they were.
C21_NoDiffAppliedWhileFetchFailed ==
    [][(FetchFailed /\ lastEvt'.kind = "diff") => rawOrderbook' = rawOrderbook]_vars

\* every step that issues a snapshot request is the mount, the retry button,
\* a depth toggle or a symbol change: the component issues none of its own
\* accord
RequestsOnlyOnDemand ==
    [][Len(fetches') > Len(fetches)
          => lastEvt'.kind \in {"mount", "retry", "switch", "depth"}]_vars

(* ---------------------- C22: order of the aggregation ------------------ *)
\* grouped rows strictly ordered by price: bids falling, asks rising
GroupedOrdered(rows, type) ==
    \A i, j \in 1..Len(rows) :
        i < j => IF type = "bid" THEN rows[i].price > rows[j].price
                 ELSE rows[i].price < rows[j].price

\* C22: at every precision the aggregation of the raw bids is strictly
\* decreasing in price and the aggregation of the raw asks strictly
\* increasing, so no price appears twice.
C22_AggregationStrictlyOrdered ==
    \A p \in DisplayPrecisions :
        /\ GroupedOrdered(groupByPrecision(rawOrderbook.bids, p), "bid")
        /\ GroupedOrdered(groupByPrecision(rawOrderbook.asks, p), "ask")

(* ---------------------- C23: empty window, no NaN ---------------------- *)
\* the ratio denotes a number between 0 and 100
NumberInRange(ratio) ==
    /\ ratio.num # NaN
    /\ ratio.den # NaN
    /\ ratio.den > 0
    /\ 0 <= ratio.num
    /\ ratio.num <= 100 * ratio.den

PercentagesAreNumbers(raw, rows) ==
    /\ raw = <<>> => rows = <<>>
    /\ \A i \in 1..Len(rows) : NumberInRange(rows[i].depthPercentage)

\* C23: an empty raw side is displayed as no rows, and the depth percentage
\* of every displayed row is a number between 0 and 100.
C23_PercentagesAreNumbers ==
    /\ PercentagesAreNumbers(rawOrderbook.bids, processedOrderbook.bids)
    /\ PercentagesAreNumbers(rawOrderbook.asks, processedOrderbook.asks)

(* ------------------------- C24: depth limit ---------------------------- *)
\* the rows are at most depth many, all the grouped levels when those are
\* fewer, and no grouped level left out is nearer the touch than a row
ClosestToTouch(rows, grouped, depth, type) ==
    /\ Len(rows) <= depth
    /\ Len(rows) = (IF Len(grouped) < depth THEN Len(grouped) ELSE depth)
    /\ ShownPrices(rows) \subseteq ShownPrices(grouped)
    /\ \A p \in ShownPrices(rows) :
          \A q \in ShownPrices(grouped) \ ShownPrices(rows) :
              IF type = "bid" THEN p > q ELSE p < q

\* C24: each displayed side has at most currentDepth rows, and they are the
\* aggregated levels nearest the touch: the highest bids, the lowest asks.
C24_WindowIsClosestToTouch ==
    /\ ClosestToTouch(displayBids,
                      groupByPrecision(rawOrderbook.bids, currentPrecision),
                      currentDepth, "bid")
    /\ ClosestToTouch(displayAsks,
                      groupByPrecision(rawOrderbook.asks, currentPrecision),
                      currentDepth, "ask")

(* --------------------------- C25: single writer ------------------------ *)
\* C25: the rows of the dashboard's order-book panel change only in steps of
\* its 'orderbook' subscription, and the component's raw book only in steps
\* of its snapshot responses and depth messages.
C25_SingleWriter ==
    [][/\ (mockBids' # mockBids \/ mockAsks' # mockAsks)
             => lastEvt'.kind = "orderbook"
       /\ rawOrderbook' # rawOrderbook
             => lastEvt'.kind \in {"snapshot", "diff"}]_vars

(* -------------------- C26: lastUpdateId never goes back ---------------- *)
\* C26: while the book of the selected symbol stays on display, no step
\* lowers its lastUpdateId.
C26_LastUpdateIdMonotonic ==
    [][(/\ Synced
        /\ bookOf = symbol
        /\ bookOf' = symbol
        /\ symbol' = symbol) =>
          rawOrderbook'.lastUpdateId >= rawOrderbook.lastUpdateId]_vars

(* --------------------- C28: flags after overlapping fetches ------------ *)
InFlight == \E i \in 1..Len(fetches) : fetches[i].stage \in {"book", "ticker"}
AllSettled == fetches # <<>> /\ ~InFlight

\* hasError tells the fate of the request started last
ErrorFlagOfLastFetch ==
    AllSettled => (hasError <=> fetches[Len(fetches)].stage = "failed")
\* isLoading is off only when nothing is pending
LoadingFlagWhilePending == ~isLoading => ~InFlight

\* C28: once every snapshot request has settled, hasError is true exactly
\* when the request started last has failed; and isLoading is false only
\* when no request is in flight.
C28_FlagsFollowLatestFetch ==
    /\ ErrorFlagOfLastFetch
    /\ LoadingFlagWhilePending

\* C27: the order list of the trading store never holds two entries with the
\* same id, however submitOrder interleaves with ORDER_TRADE_UPDATE events
C27_NoDuplicateOrderIds ==
    \A i \in 1..Len(storeOrders) : \A j \in 1..Len(storeOrders) :
        i # j => storeOrders[i].id # storeOrders[j].id

\* the step settles the cancelOrder call i with the given stage
CancelSettles(i, stage) ==
    /\ i \in CancelCalls
    /\ calls[i].stage = "pending"
    /\ calls'[i].stage = stage

\* the list after differs from the list before at most in the status of
\* entries with this id, which is CANCELED, and a local order with this id,
\* if there is one, is CANCELED
CanceledOnly(before, after, orderId) ==
    /\ Len(after) = Len(before)
    /\ \A k \in 1..Len(before) :
          /\ after[k].id = before[k].id
          /\ after[k] # before[k] =>
                (before[k].id = orderId /\ after[k].status = "CANCELED")
    /\ (\E k \in 1..Len(before) : before[k].id = orderId) =>
          \E k \in 1..Len(after) :
              after[k].id = orderId /\ after[k].status = "CANCELED"

\* C29: a cancelOrder that fails at the server leaves the order list as it
\* was, sets lastError and throws the error on; one that succeeds changes
\* nothing but the status of the order with that id, which becomes CANCELED,
\* and changes nothing when no local order has that id
C29_CancelOrderEffect ==
    [][\A i \in 1..Len(calls) :
          /\ CancelSettles(i, "failed") =>
                /\ storeOrders' = storeOrders
                /\ lastError' # "null"
                /\ lastEvt'.outcome = "threw"
          /\ CancelSettles(i, "done") =>
                /\ CanceledOnly(storeOrders, storeOrders', calls[i].id)
                /\ lastEvt'.outcome = "resolved"]_vars

\* a cancel has succeeded on a list that holds the order and another one
C29_Witness ==
    /\ lastEvt.kind = "canceled"
    /\ lastEvt.outcome = "resolved"
    /\ \E k \in 1..Len(storeOrders) :
          storeOrders[k].id = lastEvt.data.id /\ storeOrders[k].status = "CANCELED"
    /\ \E k \in 1..Len(storeOrders) : storeOrders[k].id # lastEvt.data.id

\* prices at which a market order can fill
MarketPrices == 1..MaxPrice

\* what a BUY costs: its price times its quantity, and for an order without a
\* price the fill price times its quantity
Affordable(orderRequest) ==
    IF orderRequest.price # Undefined
    THEN orderRequest.price * orderRequest.quantity <= account.availableBalance
    ELSE \E fill \in MarketPrices :
            fill * orderRequest.quantity <= account.availableBalance

\* C30: validateOrder accepts a request only if its symbol is not empty, its
\* quantity is positive, a LIMIT request has a positive price and, with an
\* account loaded, a BUY of any type, a MARKET request without a price
\* included, costs no more than the available balance
C30_ValidOrdersAreAffordable ==
    (lastEvt.kind = "validate" /\ lastEvt.outcome = "valid") =>
        /\ lastEvt.data.symbol # ""
        /\ lastEvt.data.quantity > 0
        /\ lastEvt.data.type = "LIMIT" =>
              (lastEvt.data.price # Undefined /\ lastEvt.data.price > 0)
        /\ (account # NoAccount /\ lastEvt.data.side = "BUY") =>
              Affordable(lastEvt.data)

\* the part of C30 that holds: a priced BUY is accepted only within the balance
PricedBuysAreAffordable ==
    (/\ lastEvt.kind = "validate" /\ lastEvt.outcome = "valid"
     /\ account # NoAccount /\ lastEvt.data.side = "BUY"
     /\ lastEvt.data.price # Undefined) =>
        lastEvt.data.price * lastEvt.data.quantity <= account.availableBalance

====
